---- MODULE Spec2Model ----
(***************************************************************************)
(* Model of the invoice intake pipeline of                                 *)
(* src/scripts/manual_inbox_to_supabase_recall.py (FleetEmailProcessor).   *)
(*                                                                         *)
(* Text is modelled as a sequence of tokens: a token is either one         *)
(* character or an indivisible literal of the source ("Invoice", ".pdf",   *)
(* "__I-").  Prefix, suffix, containment, strip, lower-casing and edit     *)
(* distance are computed on these sequences.                               *)
(*                                                                         *)
(* The mailbox (Gmail), the ledger store (Google Sheets), the object       *)
(* storage (Supabase) and the field extraction service (OpenAI) are        *)
(* collaborators: each call either returns or raises, chosen               *)
(* nondeterministically where the code has a path for it.                  *)
(***************************************************************************)
EXTENDS Integers, Sequences, FiniteSets, TLC

(***************************************************************************)
(* Bounds of the model.                                                    *)
(***************************************************************************)
NumMsgs == 1        \* messages that exist in the mailbox
MaxRuns == 3        \* executions of the script (construct + process_inbox)
MaxFaults == 3      \* collaborator failures and interruptions in one history

(***************************************************************************)
(* Program constants.                                                      *)
(***************************************************************************)
DELAY_BETWEEN_EMAILS == 3
BATCH_SIZE == 20
BATCH_DELAY == 30

Msgs == 1..NumMsgs

(***************************************************************************)
(* Text helpers.                                                           *)
(***************************************************************************)
Min2(a, b) == IF a <= b THEN a ELSE b

Min3(a, b, c) == Min2(a, Min2(b, c))

\* str.lower() on one token
LowerTok(t) ==
    CASE t = "Invoice" -> "invoice"
      [] t = "INVOICE" -> "invoice"
      [] t = ".PDF"    -> ".pdf"
      [] t = "A"       -> "a"
      [] t = "B"       -> "b"
      [] t = "C"       -> "c"
      [] OTHER         -> t

\* str.lower()
Lower(s) == [i \in DOMAIN s |-> LowerTok(s[i])]

\* s.startswith(p), p one literal
StartsWith(s, p) == Len(s) >= 1 /\ s[1] = p

\* s.endswith(p), p one literal
EndsWith(s, p) == Len(s) >= 1 /\ s[Len(s)] = p

\* p in s, p one literal
ContainsTok(s, p) == \E i \in DOMAIN s : s[i] = p

IsSpace(t) == t = " "

\* str.strip(): leading and trailing whitespace removed, interior kept
RECURSIVE LStrip(_)
LStrip(s) == IF s # <<>> /\ IsSpace(Head(s)) THEN LStrip(Tail(s)) ELSE s

RECURSIVE RStrip(_)
RStrip(s) ==
    IF s # <<>> /\ IsSpace(s[Len(s)]) THEN RStrip(SubSeq(s, 1, Len(s) - 1)) ELSE s

Strip(s) == RStrip(LStrip(s))

\* str.replace(' ', '-')
SpacesToHyphens(s) == [i \in DOMAIN s |-> IF s[i] = " " THEN "-" ELSE s[i]]

IsPrefix(p, s) == Len(p) <= Len(s) /\ SubSeq(s, 1, Len(p)) = p

(***************************************************************************)
(* Company Resolver.                                                       *)
(***************************************************************************)
\* The reference set in the order the reference store returns it
\* (self.valid_companies is a dict: iteration is insertion order).
ValidCompanies ==
    << <<"a", "c", "m", "e">>,
       <<"a", "b", "-">>,
       <<"a", "c", "e", "s">>,
       <<"a", "c", "e", "-">> >>

InValidCompanies(k) == \E i \in DOMAIN ValidCompanies : ValidCompanies[i] = k

\* one row of the dynamic program: current_row for character c1 of s1
RECURSIVE LevRow(_, _, _, _, _)
LevRow(previous_row, current_row, c1, s2, j) ==
    IF j > Len(s2) THEN current_row
    ELSE LET insertions    == previous_row[j + 1] + 1
             deletions     == current_row[j] + 1
             substitutions == previous_row[j] + (IF c1 # s2[j] THEN 1 ELSE 0)
         IN  LevRow(previous_row,
                    Append(current_row, Min3(insertions, deletions, substitutions)),
                    c1, s2, j + 1)

RECURSIVE LevRows(_, _, _, _)
LevRows(previous_row, s1, i, s2) ==
    IF i > Len(s1) THEN previous_row[Len(previous_row)]
    ELSE LevRows(LevRow(previous_row, <<i>>, s1[i], s2, 1), s1, i + 1, s2)

LevOrdered(s1, s2) ==
    IF Len(s2) = 0 THEN Len(s1)
    ELSE LevRows([k \in 1..(Len(s2) + 1) |-> k - 1], s1, 1, s2)

levenshtein_distance(s1, s2) ==
    IF Len(s1) < Len(s2) THEN LevOrdered(s2, s1) ELSE LevOrdered(s1, s2)

\* the loop of _find_fuzzy_match from position i on; <<>> stands for None
RECURSIVE FuzzyLoop(_, _, _, _, _)
FuzzyLoop(input_name, max_distance, i, best_match, best_distance) ==
    IF i > Len(ValidCompanies) THEN best_match
    ELSE LET valid_name == ValidCompanies[i]
             distance   == levenshtein_distance(input_name, valid_name)
         IN  IF distance <= max_distance /\ distance < best_distance
             THEN FuzzyLoop(input_name, max_distance, i + 1, valid_name, distance)
             ELSE FuzzyLoop(input_name, max_distance, i + 1, best_match, best_distance)

\* the first reference key within max_distance, without looking for a
\* nearer one
RECURSIVE FirstWithin(_, _, _)
FirstWithin(input_name, max_distance, i) ==
    IF i > Len(ValidCompanies) THEN <<>>
    ELSE IF levenshtein_distance(input_name, ValidCompanies[i]) <= max_distance
    THEN ValidCompanies[i]
    ELSE FirstWithin(input_name, max_distance, i + 1)

find_fuzzy_match_first_within(input_name, max_distance) ==
    FirstWithin(input_name, max_distance, 1)

find_fuzzy_match(input_name, max_distance) ==
    FuzzyLoop(input_name, max_distance, 1, <<>>, max_distance + 1)

\* text.split('\n')[0]
RECURSIVE FirstLine(_)
FirstLine(s) ==
    IF s = <<>> \/ Head(s) = "\n" THEN <<>> ELSE <<Head(s)>> \o FirstLine(Tail(s))

\* "if x.endswith(','): x = x[:-1].strip()"
DropTrailingComma(s) ==
    IF EndsWith(s, ",") THEN Strip(SubSeq(s, 1, Len(s) - 1)) ELSE s

\* .replace('&amp;', '&').replace('&nbsp;', ' ')
Unescape(s) ==
    [i \in DOMAIN s |-> IF s[i] = "&amp;" THEN "&"
                        ELSE IF s[i] = "&nbsp;" THEN " " ELSE s[i]]

\* the candidate name: first line of the plain body, else the first span of
\* the HTML body (message.html holds the text of that span, <<>> if none)
CandidateName(message) ==
    LET from_plain == IF message.plain # <<>>
                      THEN DropTrailingComma(Strip(FirstLine(message.plain)))
                      ELSE <<>>
    IN  IF from_plain # <<>> THEN from_plain
        ELSE IF message.html # <<>>
             THEN DropTrailingComma(Strip(Unescape(message.html)))
             ELSE <<>>

\* the resolution that falls back to a reference key when no tier matches
extract_company_name_guess(message) ==
    LET company_name == CandidateName(message)
    IN  IF company_name = <<>> THEN ValidCompanies[1]
        ELSE LET company_formatted  == SpacesToHyphens(Lower(company_name))
                 with_trailing_dash == company_formatted \o <<"-">>
                 fuzzy              == find_fuzzy_match(company_formatted, 2)
             IN  IF InValidCompanies(company_formatted) THEN company_formatted
                 ELSE IF InValidCompanies(with_trailing_dash) THEN with_trailing_dash
                 ELSE IF fuzzy # <<>> THEN fuzzy
                 ELSE ValidCompanies[1]

\* the resolution without the trailing-dash tier
extract_company_name_no_dash_tier(message) ==
    LET company_name == CandidateName(message)
    IN  IF company_name = <<>> THEN <<>>
        ELSE LET company_formatted == SpacesToHyphens(Lower(company_name))
             IN  IF InValidCompanies(company_formatted) THEN company_formatted
                 ELSE find_fuzzy_match(company_formatted, 2)

\* <<>> stands for None
extract_company_name(message) ==
    LET company_name == CandidateName(message)
    IN  IF company_name = <<>> THEN <<>>
        ELSE LET company_formatted  == SpacesToHyphens(Lower(company_name))
                 with_trailing_dash == company_formatted \o <<"-">>
             IN  IF InValidCompanies(company_formatted) THEN company_formatted
                 ELSE IF InValidCompanies(with_trailing_dash) THEN with_trailing_dash
                 ELSE find_fuzzy_match(company_formatted, 2)

(***************************************************************************)
(* Classifier.  A message is a record                                      *)
(*   subject, sender : text                                                *)
(*   first_in_thread : threadId = id                                       *)
(*   parts           : the parts validate_email and get_attachments visit  *)
(*                     (payload parts and their sub-parts, in visiting     *)
(*                     order), each [filename, has_id]                     *)
(*   plain, html     : the bodies (html: the text of its first span)       *)
(*   date            : the Date header as MMDDYYYY, <<>> when it is        *)
(*                     missing or does not parse                           *)
(*   fields          : what the extraction service answers for the invoice *)
(*                     when it answers: [unit, vin, plate], <<>> for a     *)
(*                     null or missing key                                 *)
(***************************************************************************)
IsInvoicePdf(filename) ==
    StartsWith(Lower(filename), "invoice") /\ EndsWith(Lower(filename), ".pdf")

\* the dict validate_email returns, without should_process (action =
\* 'process') and current_labels (the label set of the message)
Validation(action, reason) == [action |-> action, reason |-> reason]

\* the checks with the thread position tested before the reply subject
validate_email_thread_first(message) ==
    IF ~message.first_in_thread
    THEN Validation("skip", "Not first message in thread")
    ELSE IF StartsWith(message.subject, "Re:") \/ StartsWith(message.subject, "RE:")
    THEN Validation("move_to_original", "Reply email")
    ELSE IF ~ContainsTok(message.subject, "Invoice")
            \/ ~ContainsTok(message.subject, "Fleet Advisor")
    THEN Validation("move_to_other", "Not an invoice email - wrong subject format")
    ELSE IF ~ContainsTok(message.sender, "@gofleetadvisor.com")
    THEN Validation("skip", "Sender not @gofleetadvisor.com")
    ELSE IF ~(\E i \in DOMAIN message.parts : IsInvoicePdf(message.parts[i].filename))
    THEN Validation("skip", "No invoice PDF attachment found")
    ELSE Validation("process", "")

validate_email(message) ==
    IF StartsWith(message.subject, "Re:") \/ StartsWith(message.subject, "RE:")
    THEN Validation("move_to_original", "Reply email")
    ELSE IF ~ContainsTok(message.subject, "Invoice")
            \/ ~ContainsTok(message.subject, "Fleet Advisor")
    THEN Validation("move_to_other", "Not an invoice email - wrong subject format")
    ELSE IF ~message.first_in_thread
    THEN Validation("skip", "Not first message in thread")
    ELSE IF ~ContainsTok(message.sender, "@gofleetadvisor.com")
    THEN Validation("skip", "Sender not @gofleetadvisor.com")
    ELSE IF ~(\E i \in DOMAIN message.parts : IsInvoicePdf(message.parts[i].filename))
    THEN Validation("skip", "No invoice PDF attachment found")
    ELSE Validation("process", "")

(***************************************************************************)
(* Attachment Selector.                                                    *)
(***************************************************************************)
\* get_attachments: the PDF parts that carry an attachment id, in order
get_attachments(message) ==
    SelectSeq(message.parts,
              LAMBDA part : EndsWith(Lower(part.filename), ".pdf") /\ part.has_id)

IsDigits(t) == t \in {"4521", "77"}

IsSeparator(t) == t \in {"-", "_", " "}

\* re.search(r'invoice[-_\s]*(\d+)', filename, re.IGNORECASE) from the token
\* after an "invoice" literal on: the digit run, <<>> for no match here
RECURSIVE DigitsAfter(_, _)
DigitsAfter(filename, k) ==
    IF k > Len(filename) THEN <<>>
    ELSE IF IsDigits(filename[k]) THEN <<filename[k]>>
    ELSE IF IsSeparator(filename[k]) THEN DigitsAfter(filename, k + 1)
    ELSE <<>>

\* leftmost match of the pattern in the (lower-cased) filename
RECURSIVE InvoiceMatch(_, _)
InvoiceMatch(filename, k) ==
    IF k > Len(filename) THEN <<>>
    ELSE IF filename[k] = "invoice" /\ DigitsAfter(filename, k + 1) # <<>>
    THEN DigitsAfter(filename, k + 1)
    ELSE InvoiceMatch(filename, k + 1)

RECURSIVE extract_invoice_number(_)
extract_invoice_number(attachments) ==
    IF attachments = <<>> THEN <<"NA">>
    ELSE LET filename == Lower(Head(attachments).filename)
         IN  IF StartsWith(filename, "invoice") /\ InvoiceMatch(filename, 1) # <<>>
             THEN InvoiceMatch(filename, 1)
             ELSE extract_invoice_number(Tail(attachments))

\* the partition loop of process_single_email: the last attachment whose
\* name starts with the marker is the invoice attachment (<<>> for None)
RECURSIVE InvoiceAttachment(_)
InvoiceAttachment(attachments) ==
    IF attachments = <<>> THEN <<>>
    ELSE LET last == attachments[Len(attachments)]
         IN  IF StartsWith(Lower(last.filename), "invoice") THEN <<last>>
             ELSE InvoiceAttachment(SubSeq(attachments, 1, Len(attachments) - 1))

\* the supporting group with every attachment in it
DotAttachmentsAll(attachments) ==
    SelectSeq(attachments, LAMBDA att : EndsWith(Lower(att.filename), ".pdf"))

DotAttachments(attachments) ==
    SelectSeq(attachments,
              LAMBDA att : ~StartsWith(Lower(att.filename), "invoice")
                           /\ EndsWith(Lower(att.filename), ".pdf"))

(***************************************************************************)
(* Field Extractor.                                                        *)
(***************************************************************************)
\* str.upper() on one token
UpperTok(t) ==
    CASE t = "na" -> "NA"
      [] t = "u"  -> "U"
      [] OTHER    -> t

\* (metadata.get(k, 'NA') or 'NA').upper().replace(' ', '').strip()
NormalizeField(v) ==
    LET value == IF v = <<>> THEN <<"NA">> ELSE v
        upper == [i \in DOMAIN value |-> UpperTok(value[i])]
    IN  Strip(SelectSeq(upper, LAMBDA t : t # " "))

NAFields == [unit |-> <<"NA">>, vin |-> <<"NA">>, plate |-> <<"NA">>]

\* extract_metadata_from_pdf when the service answered `answer`
NormalizeMetadata(answer) ==
    LET unit  == NormalizeField(answer.unit)
        vin   == NormalizeField(answer.vin)
        plate == NormalizeField(answer.plate)
    IN  [unit  |-> IF (unit = <<"NA">> \/ unit = <<>>) /\ vin # <<"NA">> /\ Len(vin) >= 8
                   THEN SubSeq(vin, Len(vin) - 7, Len(vin))
                   ELSE unit,
         vin   |-> vin,
         plate |-> plate]

\* the extraction that answers from the document whatever the calls did
extract_metadata_from_pdf_ignore_failure(message, ok) == NormalizeMetadata(message.fields)

\* extract_metadata_from_pdf: `ok` is whether text extraction and the service
\* call both returned a parseable answer
extract_metadata_from_pdf(message, ok) ==
    IF ok THEN NormalizeMetadata(message.fields) ELSE NAFields

\* get_email_date: the Date header, else today's date
get_email_date(message, now) == IF message.date # <<>> THEN message.date ELSE now

(***************************************************************************)
(* Filename Synthesizer.                                                   *)
(***************************************************************************)
InvoiceFilename(company, invoice_number, meta, email_date) ==
    Strip(company \o <<"__I-">> \o invoice_number \o <<"__U-">> \o meta.unit
          \o <<"__V-">> \o meta.vin \o <<"__D-">> \o email_date
          \o <<"__P-">> \o meta.plate \o <<".pdf">>)

\* the bundle name with the '__dot' segment at the end of the name
DotFilenameDotLast(company, invoice_number, meta, email_date) ==
    Strip(company \o <<"__I-">> \o invoice_number \o <<"__U-">> \o meta.unit
          \o <<"__V-">> \o meta.vin \o <<"__D-">> \o email_date
          \o <<"__P-">> \o meta.plate \o <<"__dot">> \o <<".pdf">>)

DotFilename(company, invoice_number, meta, email_date) ==
    Strip(company \o <<"__dot">> \o <<"__I-">> \o invoice_number \o <<"__U-">> \o meta.unit
          \o <<"__V-">> \o meta.vin \o <<"__D-">> \o email_date
          \o <<"__P-">> \o meta.plate \o <<".pdf">>)

(***************************************************************************)
(* Ledger.  A row of the sheet is a sequence of cells, a cell is text      *)
(* (<<>> is the empty cell).  Row positions are 1-based as in the store.   *)
(***************************************************************************)
Truncate(s, n) == SubSeq(s, 1, Min2(Len(s), n))

HeaderRow ==
    << <<"Timestamp">>, <<"Message ID">>, <<"Subject">>, <<"Company">>,
       <<"Invoice File">>, <<"DOT File">>, <<"Status">>, <<"Error">> >>

\* the row log_to_sheet builds (values[0])
LogRow(timestamp, message_id, subject, company, invoice_file, dot_file, status, error) ==
    << timestamp,
       <<message_id>>,
       Truncate(subject, 100),
       company,
       invoice_file,
       IF dot_file # <<>> THEN dot_file ELSE <<"N/A">>,
       <<status>>,
       IF error # <<>> THEN Truncate(error, 200) ELSE <<>> >>

\* values().get returns each row without its trailing empty cells
RECURSIVE TrimRow(_)
TrimRow(row) ==
    IF row # <<>> /\ row[Len(row)] = <<>>
    THEN TrimRow(SubSeq(row, 1, Len(row) - 1))
    ELSE row

StoreRead(rows) == [i \in DOMAIN rows |-> TrimRow(rows[i])]

\* values().update of row `row_number`: rows between the end of the sheet
\* and the written row stay empty
StoreUpdate(rows, row_number, values) ==
    [i \in 1..(IF row_number > Len(rows) THEN row_number ELSE Len(rows)) |->
        IF i = row_number THEN values
        ELSE IF i <= Len(rows) THEN rows[i] ELSE <<>>]

\* values().append: the row goes after the last row of the sheet
StoreAppend(rows, values) == Append(rows, values)

\* _load_sheet_data: `ok` is whether the read returned
load_sheet_data(rows, ok) == IF ok THEN StoreRead(rows) ELSE <<HeaderRow>>

RowHasId(data, i) == Len(data[i]) >= 2 /\ data[i][2] # <<>>

MaxOf(S) == CHOOSE x \in S : \A y \in S : y <= x

\* _build_message_id_map: the header row is skipped, a later row with the
\* same identifier replaces an earlier one
build_message_id_map(data) ==
    LET keys == {data[i][2] : i \in {j \in 2..Len(data) : RowHasId(data, j)}}
    IN  [k \in keys |->
            MaxOf({i \in 2..Len(data) : RowHasId(data, i) /\ data[i][2] = k})]

is_already_processed(data, id_to_row, message_id) ==
    IF <<message_id>> \notin DOMAIN id_to_row THEN FALSE
    ELSE LET row == data[id_to_row[<<message_id>>]]
         IN  IF Len(row) >= 7 THEN row[7] = <<"success">> ELSE FALSE

\* log_to_sheet: the new [store, data, map] when the store call returned
\* (`ok`) or raised
log_to_sheet(rows, data, id_to_row, values, ok) ==
    LET key == values[2]
    IN  IF ~ok THEN [store |-> rows, data |-> data, map |-> id_to_row]
        ELSE IF key \in DOMAIN id_to_row
        THEN LET row_number == id_to_row[key]
             IN  [store |-> StoreUpdate(rows, row_number, values),
                  data  |-> [data EXCEPT ![row_number] = values],
                  map   |-> id_to_row]
        ELSE LET new_row_number == Len(data) + 1
             IN  [store |-> StoreAppend(rows, values),
                  data  |-> Append(data, values),
                  map   |-> [k \in DOMAIN id_to_row \cup {key} |->
                                IF k = key THEN new_row_number ELSE id_to_row[k]]]

(***************************************************************************)
(* Storage.                                                                *)
(***************************************************************************)
\* storage.list(path='', options={'search': name}): the collaborator filters
\* the bucket by the search text; an object is returned when its name begins
\* with it, which an object of exactly that name does
SearchList(content, name) == {o \in content : IsPrefix(name, o)}

\* upload_to_supabase without the early return on a non-empty listing
upload_to_supabase_no_dedup(content, filename, search_ok, upload_ok) ==
    LET name == Strip(filename)
        hit  == SearchList(content, name) # {}
    IN  IF ~search_ok
        THEN [ok |-> FALSE, content |-> content, wrote |-> FALSE, hit |-> FALSE]
        ELSE IF upload_ok
        THEN [ok |-> TRUE, content |-> content \cup {name}, wrote |-> TRUE, hit |-> hit]
        ELSE [ok |-> FALSE, content |-> content, wrote |-> TRUE, hit |-> hit]

\* upload_to_supabase: [ok: the value returned, content: the bucket after,
\* wrote: an upload call was issued, hit: the listing was not empty]
upload_to_supabase(content, filename, search_ok, upload_ok) ==
    LET name     == Strip(filename)
        existing == SearchList(content, name)
    IN  IF ~search_ok
        THEN [ok |-> FALSE, content |-> content, wrote |-> FALSE, hit |-> FALSE]
        ELSE IF existing # {}
        THEN [ok |-> TRUE, content |-> content, wrote |-> FALSE, hit |-> TRUE]
        ELSE IF upload_ok
        THEN [ok |-> TRUE, content |-> content \cup {name}, wrote |-> TRUE, hit |-> FALSE]
        ELSE [ok |-> FALSE, content |-> content, wrote |-> TRUE, hit |-> FALSE]

(***************************************************************************)
(* The messages the mailbox may hold.                                      *)
(***************************************************************************)
MsgId(i) ==
    CASE i = 1 -> "m1"
      [] i = 2 -> "m2"
      [] i = 3 -> "m3"
      [] OTHER -> "m4"

MsgIds == {MsgId(i) : i \in Msgs}

InvoicePart == [filename |-> <<"Invoice", "_", "4521", ".pdf">>, has_id |-> TRUE]

DotPart == [filename |-> <<"dot", ".pdf">>, has_id |-> TRUE]

\* an invoice with a supporting document, company on the first plain line
ProcessDotMessage ==
    [subject         |-> <<"Invoice", " ", "Fleet Advisor">>,
     sender          |-> <<"donotreply", "@gofleetadvisor.com">>,
     first_in_thread |-> TRUE,
     parts           |-> <<InvoicePart, DotPart>>,
     plain           |-> <<"A", "c", "m", "e", ",", "\n", "x">>,
     html            |-> <<>>,
     date            |-> <<"01152024">>,
     fields          |-> [unit |-> <<"u", "9">>, vin |-> <<"V1">>, plate |-> <<>>]]

\* an invoice alone, company in the HTML body, no Date header, unit to be
\* taken from the VIN
ProcessMessage ==
    [subject         |-> <<"Invoice", " ", "Fleet Advisor">>,
     sender          |-> <<"donotreply", "@gofleetadvisor.com">>,
     first_in_thread |-> TRUE,
     parts           |-> <<InvoicePart>>,
     plain           |-> <<>>,
     html            |-> <<"a", "c", "m", "e", "e">>,
     date            |-> <<>>,
     fields          |-> [unit |-> <<"na">>,
                          vin  |-> <<"1", "2", "3", "4", "5", "6", "7", "8", "9">>,
                          plate |-> <<"P1">>]]

ReplyMessage == [ProcessDotMessage EXCEPT !.subject = <<"Re:", " ", "Invoice">>]

OtherMessage == [ProcessMessage EXCEPT !.subject = <<"Hello">>]

SkipMessage == [ProcessMessage EXCEPT !.first_in_thread = FALSE]

\* routed to Process, but the company is not in the reference set
NoCompanyMessage ==
    [ProcessMessage EXCEPT !.html = <<"z", "z", "z", "z", "z", "z", "z">>]

\* routed to Process, but the invoice part carries no attachment id
NoInvoiceDataMessage ==
    [ProcessDotMessage EXCEPT
        !.parts = <<[filename |-> <<"invoice", ".pdf">>, has_id |-> FALSE], DotPart>>]

\* the sample messages; a mailbox holds NumMsgs consecutive ones of them,
\* starting with any
SampleMessages ==
    <<ProcessDotMessage, ProcessMessage, ReplyMessage, NoCompanyMessage, OtherMessage,
      NoInvoiceDataMessage, SkipMessage>>

\* the sample that message_id is in the mailbox that starts with sample `first`
SampleIndex(first, message_id) ==
    LET i == CHOOSE j \in Msgs : MsgId(j) = message_id
    IN  ((first + i - 2) % Len(SampleMessages)) + 1

\* messages().get(id=message_id)
Message(first, message_id) == SampleMessages[SampleIndex(first, message_id)]

\* validate_email, extract_company_name and get_attachments of every sample,
\* computed once
ActionOfSample ==
    [i \in DOMAIN SampleMessages |-> validate_email(SampleMessages[i]).action]

CompanyOfSample ==
    [i \in DOMAIN SampleMessages |-> extract_company_name(SampleMessages[i])]

AttachmentsOfSample ==
    [i \in DOMAIN SampleMessages |-> get_attachments(SampleMessages[i])]

\* datetime.now().strftime('%m%d%Y'): the dates the clock may show when
\* get_email_date falls back to it (the same day as before, or another)
Days == {<<"11012026">>, <<"11022026">>}

\* an object some other writer left in the INVOICE bucket
ForeignObject ==
    InvoiceFilename(<<"a", "c", "m", "e">>, <<"4521">>, NAFields, <<"01152024">>)
    \o <<".bak">>

(***************************************************************************)
(* State.                                                                  *)
(***************************************************************************)
VARIABLES
    \* the collaborators
    mailbox,            \* the sample the mailbox starts with (never changes)
    labels,             \* message id -> label set
    sheet,              \* the persisted ledger rows
    bucket,             \* bucket name -> object names
    run,                \* executions of the script started so far
    faults,             \* collaborator failures and interruptions so far
    \* one execution of the script (FleetEmailProcessor and process_inbox)
    pc,                 \* position in the script
    sheet_data,
    message_id_to_row,
    sorted_label_id,    \* TRUE: a label id, FALSE: None
    other_label_id,
    all_messages,
    idx,
    counts,             \* processed_count, failed_count, skipped_count, cleaned_count
    cur,                \* locals of the message being handled
    delay,              \* the last time.sleep of the loop, 0 before any
    \* history
    att,                \* the calls made while handling the current message
    touched,            \* ids a collaborator was called for in this run
    logged,             \* ids log_to_sheet was called for in this run
    slept,              \* time.sleep was called since the last messages().get
    success_at_start,   \* ids with a persisted 'success' row when the run began
    last_attempt,       \* id -> status and error of its last log_to_sheet call
    interrupted,        \* ids whose handling the previous run left unlogged
    uploaded_by,        \* id -> names its upload calls stored, per bucket
    \* one call of a function of the pipeline on its own
    fn                  \* [op, arg, result, done]

env_vars == <<mailbox, labels, sheet, bucket, run, faults>>

proc_vars ==
    <<pc, sheet_data, message_id_to_row, sorted_label_id, other_label_id,
      all_messages, idx, counts, cur, delay>>

hist_vars == <<att, touched, logged, slept, success_at_start, last_attempt, interrupted, uploaded_by>>

vars == <<env_vars, proc_vars, hist_vars, fn>>

NoCur ==
    [message_id |-> "", subject |-> <<>>, company |-> <<>>, has_dot |-> FALSE,
     invoice_filename |-> <<>>, dot_filename |-> <<>>,
     invoice_uploaded |-> FALSE, dot_uploaded |-> FALSE,
     row |-> <<>>, counter |-> ""]

NoAtt ==
    [message_id |-> "", fetched |-> FALSE, inbox |-> FALSE, raised |-> FALSE,
     action |-> "", extraction |-> "none",
     invoice_up |-> "none", dot_up |-> "none", hit |-> FALSE, wrote |-> FALSE,
     modify_calls |-> 0, log_status |-> "none", log_ok |-> FALSE]

ZeroCounts == [processed |-> 0, failed |-> 0, skipped |-> 0, cleaned |-> 0]

\* no function is called on its own while the script runs
NoCall == [op |-> "", arg |-> <<>>, result |-> <<>>, done |-> FALSE]

\* the collaborators and the script before its first execution
PipelineInit ==
    /\ mailbox \in DOMAIN SampleMessages
    /\ labels = [m \in MsgIds |-> {"INBOX"}]
    /\ sheet = <<HeaderRow>>
    /\ bucket = [INVOICE |-> {ForeignObject}, DOT |-> {}]
    /\ run = 0
    /\ faults = 0
    /\ pc = "idle"
    /\ sheet_data = <<>>
    /\ message_id_to_row = <<>>
    /\ sorted_label_id = FALSE
    /\ other_label_id = FALSE
    /\ all_messages = <<>>
    /\ idx = 0
    /\ counts = ZeroCounts
    /\ cur = NoCur
    /\ delay = 0
    /\ att = NoAtt
    /\ touched = {}
    /\ logged = {}
    /\ slept = FALSE
    /\ success_at_start = {}
    /\ last_attempt = [m \in MsgIds |-> <<>>]
    /\ interrupted = {}
    /\ uploaded_by = [m \in MsgIds |-> [INVOICE |-> {}, DOT |-> {}]]

Init == PipelineInit /\ fn = NoCall

(***************************************************************************)
(* Mailbox operations.                                                     *)
(***************************************************************************)
\* the label names matching Batch_*_sorted (self.batch_labels)
BatchLabels == {"SORTED"}

\* messages().modify(addLabelIds, removeLabelIds) that returned
ModifyLabels(lbls, message_id, add, remove) ==
    [lbls EXCEPT ![message_id] = (@ \cup add) \ remove]

\* the text move_reply_to_original_label returns beside its flag
ReplyMoveText(current_labels, ok) ==
    IF ~ok THEN <<"modify error">>
    ELSE IF current_labels \cap BatchLabels # {} THEN <<"Kept in ", "Batch_2_sorted">>
    ELSE <<"Reply removed from INBOX">>

\* messages().list(labelIds=['INBOX']) over all pages; `again` is an id the
\* mailbox returns once more on a later page, "" for none
InboxListing(lbls, again) ==
    SelectSeq([i \in 1..NumMsgs |-> MsgId(i)], LAMBDA m : "INBOX" \in lbls[m])
    \o (IF again = "" THEN <<>> ELSE <<again>>)

PersistedSuccess(rows) ==
    {m \in MsgIds : \E i \in 2..Len(rows) :
        /\ Len(StoreRead(rows)[i]) >= 7
        /\ StoreRead(rows)[i][2] = <<m>>
        /\ StoreRead(rows)[i][7] = <<"success">>}

\* the increment with the failures left uncounted
BumpExceptFailed(c, field) ==
    IF field = "failed" THEN c ELSE [c EXCEPT ![field] = @ + 1]

Bump(c, field) == [c EXCEPT ![field] = @ + 1]

\* a call that returned costs nothing, one that failed counts as a failure
Cost(ok) == IF ok THEN 0 ELSE 1

\* the step sees n more failures; the history holds at most MaxFaults
Failures(n) == faults + n <= MaxFaults /\ faults' = faults + n

(***************************************************************************)
(* FleetEmailProcessor.__init__ : a new execution of the script.           *)
(***************************************************************************)
Construct ==
    /\ pc \in {"idle", "done"}
    /\ run < MaxRuns
    /\ run' = run + 1
    /\ \E labels_ok \in BOOLEAN, load_ok \in BOOLEAN :
          \* _get_or_create_label: the labels API answers in this execution or not
          /\ Failures(Cost(labels_ok) + Cost(load_ok))
          /\ sorted_label_id' = labels_ok
          /\ other_label_id' = labels_ok
          /\ sheet_data' = load_sheet_data(sheet, load_ok)
          /\ message_id_to_row' = build_message_id_map(load_sheet_data(sheet, load_ok))
    /\ counts' = ZeroCounts
    /\ all_messages' = <<>>
    /\ idx' = 0
    /\ cur' = NoCur
    /\ delay' = 0
    /\ pc' = "list"
    /\ att' = NoAtt
    /\ touched' = {}
    /\ logged' = {}
    /\ slept' = FALSE
    /\ success_at_start' = PersistedSuccess(sheet)
    /\ UNCHANGED <<fn, mailbox, labels, sheet, bucket, last_attempt, interrupted, uploaded_by>>

(***************************************************************************)
(* process_inbox: the listing.                                             *)
(***************************************************************************)
ListInbox ==
    /\ pc = "list"
    /\ \E again \in {""} \cup {m \in MsgIds : InboxListing(labels, "") # <<>>
                                                /\ m = Head(InboxListing(labels, ""))} :
          /\ all_messages' = InboxListing(labels, again)
          /\ Failures(Cost(again = ""))
    /\ idx' = 1
    /\ pc' = "loop"
    /\ UNCHANGED <<fn, mailbox, labels, sheet, bucket, run, sheet_data, message_id_to_row, sorted_label_id,
                   other_label_id, counts, cur, delay, hist_vars>>

(***************************************************************************)
(* process_inbox: one iteration of the loop.                               *)
(***************************************************************************)
\* the loop is over: the summary is printed
Finish ==
    /\ pc = "loop"
    /\ idx > Len(all_messages)
    /\ pc' = "done"
    /\ interrupted' = {}
    /\ UNCHANGED <<fn, env_vars, sheet_data, message_id_to_row, sorted_label_id,
                   other_label_id, all_messages, idx, counts, cur, delay,
                   att, touched, logged, slept, success_at_start, last_attempt, uploaded_by>>

\* "if self._is_already_processed(msg_id): ... continue"
SkipProcessed ==
    /\ pc = "loop"
    /\ idx <= Len(all_messages)
    /\ is_already_processed(sheet_data, message_id_to_row, all_messages[idx])
    /\ counts' = Bump(counts, "skipped")
    /\ idx' = idx + 1
    /\ att' = NoAtt
    /\ cur' = NoCur
    /\ UNCHANGED <<fn, env_vars, pc, sheet_data, message_id_to_row, sorted_label_id,
                   other_label_id, all_messages, delay,
                   touched, logged, slept, success_at_start, last_attempt, interrupted, uploaded_by>>

\* the branches with 'skip' handled like 'move_to_other'
AfterValidationSkipMoves(action) ==
    CASE action = "move_to_original" -> "move_reply"
      [] action = "move_to_other"    -> "move_other"
      [] action = "skip"             -> "move_other"
      [] OTHER                       -> "prepare"

\* position after validate_email, by its action
AfterValidation(action) ==
    CASE action = "move_to_original" -> "move_reply"
      [] action = "move_to_other"    -> "move_other"
      [] action = "skip"             -> "sleep"
      [] OTHER                       -> "prepare"

\* messages().get returned: the message is classified
Fetch ==
    /\ pc = "loop"
    /\ idx <= Len(all_messages)
    /\ ~is_already_processed(sheet_data, message_id_to_row, all_messages[idx])
    /\ LET msg_id  == all_messages[idx]
           message == Message(mailbox, msg_id)
           action  == ActionOfSample[SampleIndex(mailbox, msg_id)]
       IN  /\ att' = [NoAtt EXCEPT !.message_id = msg_id, !.fetched = TRUE,
                                   !.inbox = "INBOX" \in labels[msg_id],
                                   !.action = action]
           /\ cur' = [NoCur EXCEPT !.message_id = msg_id, !.subject = message.subject]
           /\ counts' = IF action = "skip" THEN Bump(counts, "skipped") ELSE counts
           /\ pc' = AfterValidation(action)
           /\ touched' = touched \cup {msg_id}
           /\ slept' = FALSE
    /\ UNCHANGED <<fn, env_vars, sheet_data, message_id_to_row, sorted_label_id,
                   other_label_id, all_messages, idx, delay,
                   logged, success_at_start, last_attempt, interrupted, uploaded_by>>

\* messages().get raised: "except Exception: self.failed_count += 1"
FetchRaises ==
    /\ pc = "loop"
    /\ idx <= Len(all_messages)
    /\ ~is_already_processed(sheet_data, message_id_to_row, all_messages[idx])
    /\ Failures(1)
    /\ att' = [NoAtt EXCEPT !.message_id = all_messages[idx], !.raised = TRUE]
    /\ cur' = NoCur
    /\ counts' = Bump(counts, "failed")
    /\ idx' = idx + 1
    /\ touched' = touched \cup {all_messages[idx]}
    /\ slept' = FALSE
    /\ UNCHANGED <<fn, mailbox, labels, sheet, bucket, run, pc, sheet_data, message_id_to_row, sorted_label_id,
                   other_label_id, all_messages, delay,
                   logged, success_at_start, last_attempt, interrupted, uploaded_by>>

\* the row and the counter of the log_to_sheet call that ends a handling
Pending(c, company, status, error, counter) ==
    [c EXCEPT !.row = LogRow(<<"now">>, c.message_id, c.subject, company,
                             c.invoice_filename, c.dot_filename, status, error),
              !.counter = counter]

\* move_reply_to_original_label
MoveReply ==
    /\ pc = "move_reply"
    /\ \E ok \in BOOLEAN :
          /\ Failures(Cost(ok))
          /\ labels' = IF ok THEN ModifyLabels(labels, cur.message_id, {}, {"INBOX"})
                       ELSE labels
          /\ cur' = Pending(cur, <<>>, "failed",
                            <<"Reply email - ">> \o ReplyMoveText(labels[cur.message_id], ok),
                            "cleaned")
    /\ att' = [att EXCEPT !.modify_calls = @ + 1]
    /\ pc' = "log"
    /\ UNCHANGED <<fn, mailbox, sheet, bucket, run, sheet_data, message_id_to_row,
                   sorted_label_id, other_label_id, all_messages, idx, counts, delay,
                   touched, logged, slept, success_at_start, last_attempt, interrupted, uploaded_by>>

\* move_to_other_label
MoveOther ==
    /\ pc = "move_other"
    /\ \E ok \in BOOLEAN :
          /\ other_label_id \/ ok
          /\ Failures(Cost(ok))
          /\ labels' = IF other_label_id /\ ok
                       THEN ModifyLabels(labels, cur.message_id, {"OTHER"}, {"INBOX"})
                       ELSE labels
    /\ cur' = Pending(cur, <<>>, "failed",
                      <<"Not an invoice email - wrong subject format">>, "cleaned")
    /\ att' = [att EXCEPT !.modify_calls = IF other_label_id THEN @ + 1 ELSE @]
    /\ pc' = "log"
    /\ UNCHANGED <<fn, mailbox, sheet, bucket, run, sheet_data, message_id_to_row,
                   sorted_label_id, other_label_id, all_messages, idx, counts, delay,
                   touched, logged, slept, success_at_start, last_attempt, interrupted, uploaded_by>>

(***************************************************************************)
(* process_single_email.                                                   *)
(***************************************************************************)
\* the condition with the supporting bundle's upload left out
UploadsConfirmedInvoiceOnly(c) == c.invoice_uploaded

\* "if invoice_uploaded and dot_uploaded" / "if invoice_uploaded"
UploadsConfirmed(c) == c.invoice_uploaded /\ (c.has_dot => c.dot_uploaded)

UpText(ok) == IF ok THEN "ok" ELSE "fail"

\* the locals once the names are synthesized
Synthesized(c, message, company, attachments, meta_ok, now) ==
    LET invoice_number == extract_invoice_number(attachments)
        meta           == extract_metadata_from_pdf(message, meta_ok)
        email_date     == get_email_date(message, now)
        has_dot        == DotAttachments(attachments) # <<>>
    IN  [c EXCEPT
           !.company = company,
           !.has_dot = has_dot,
           !.invoice_filename = InvoiceFilename(company, invoice_number, meta, email_date),
           !.dot_filename = IF has_dot
                            THEN DotFilename(company, invoice_number, meta, email_date)
                            ELSE <<>>]

\* company resolution, attachment download and partition, field extraction
\* and filename synthesis: everything before the first upload
Prepare ==
    /\ pc = "prepare"
    /\ LET message     == Message(mailbox, cur.message_id)
           company     == CompanyOfSample[SampleIndex(mailbox, cur.message_id)]
           attachments == AttachmentsOfSample[SampleIndex(mailbox, cur.message_id)]
           synth       == /\ company # <<>>
                          /\ attachments # <<>>
                          /\ InvoiceAttachment(attachments) # <<>>
       IN  \E get_ok \in BOOLEAN, meta_ok \in BOOLEAN, now \in Days :
              \* a failure is chosen only where the call is made
              /\ get_ok \/ (company # <<>> /\ attachments # <<>>)
              /\ meta_ok \/ (synth /\ get_ok)
              /\ Failures(Cost(get_ok) + Cost(meta_ok))
              /\ IF company = <<>>
                 THEN /\ cur' = Pending(cur, <<>>, "failed",
                                        <<"Company name not found or not in Supabase">>,
                                        "failed")
                      /\ att' = att
                      /\ pc' = "log"
                 ELSE IF attachments # <<>> /\ ~get_ok
                 THEN \* attachments().get raised: "except Exception as e"
                      /\ cur' = Pending(cur, company, "failed", <<"exception">>, "failed")
                      /\ att' = [att EXCEPT !.raised = TRUE]
                      /\ pc' = "log"
                 ELSE IF attachments = <<>>
                 THEN /\ cur' = Pending(cur, company, "failed",
                                        <<"No PDF attachments found">>, "failed")
                      /\ att' = att
                      /\ pc' = "log"
                 ELSE IF InvoiceAttachment(attachments) = <<>>
                 THEN /\ cur' = Pending(cur, company, "failed",
                                        <<"No invoice file found">>, "failed")
                      /\ att' = att
                      /\ pc' = "log"
                 ELSE /\ cur' = Synthesized(cur, message, company, attachments,
                                            meta_ok, now)
                      /\ att' = [att EXCEPT !.extraction = UpText(meta_ok)]
                      /\ pc' = "upload_inv"
    /\ UNCHANGED <<fn, mailbox, labels, sheet, bucket, run, sheet_data, message_id_to_row,
                   sorted_label_id, other_label_id, all_messages, idx, counts, delay,
                   touched, logged, slept, success_at_start, last_attempt, interrupted, uploaded_by>>

Stored(by, message_id, bkt, r, filename) ==
    IF r.wrote /\ r.ok
    THEN [by EXCEPT ![message_id][bkt] = @ \cup {Strip(filename)}]
    ELSE by

\* upload_to_supabase(invoice_attachment['data'], invoice_filename, 'INVOICE')
UploadInvoice ==
    /\ pc = "upload_inv"
    /\ \E search_ok \in BOOLEAN, upload_ok \in BOOLEAN :
          LET r == upload_to_supabase(bucket.INVOICE, cur.invoice_filename,
                                      search_ok, upload_ok)
              c == [cur EXCEPT !.invoice_uploaded = r.ok]
          IN  /\ upload_ok \/ r.wrote
              /\ Failures(Cost(search_ok) + Cost(upload_ok))
              /\ bucket' = [bucket EXCEPT !.INVOICE = r.content]
              /\ uploaded_by' = Stored(uploaded_by, cur.message_id, "INVOICE", r,
                                       cur.invoice_filename)
              /\ att' = [att EXCEPT !.invoice_up = UpText(r.ok), !.hit = r.hit,
                                    !.wrote = r.wrote]
              /\ IF c.has_dot
                 THEN cur' = c /\ pc' = "upload_dot"
                 ELSE IF UploadsConfirmed(c)
                 THEN cur' = c /\ pc' = "label"
                 ELSE /\ cur' = Pending(c, c.company, "failed", <<"Upload failed">>, "failed")
                      /\ pc' = "log"
    /\ UNCHANGED <<fn, mailbox, labels, sheet, run, sheet_data, message_id_to_row,
                   sorted_label_id, other_label_id, all_messages, idx, counts, delay,
                   touched, logged, slept, success_at_start, last_attempt, interrupted>>

\* merge_pdfs, then upload_to_supabase(merged_dot, dot_filename, 'DOT')
UploadDot ==
    /\ pc = "upload_dot"
    /\ \E merge_ok \in BOOLEAN, search_ok \in BOOLEAN, upload_ok \in BOOLEAN :
          LET r == upload_to_supabase(bucket.DOT, cur.dot_filename, search_ok, upload_ok)
              c == [cur EXCEPT !.dot_uploaded = r.ok]
          IN  /\ search_ok \/ merge_ok
              /\ upload_ok \/ (merge_ok /\ r.wrote)
              /\ Failures(Cost(merge_ok) + Cost(search_ok) + Cost(upload_ok))
              /\ IF ~merge_ok
                 THEN \* merge_pdfs raised: "except Exception as e"
                      /\ cur' = Pending(cur, cur.company, "failed", <<"exception">>,
                                        "failed")
                      /\ att' = [att EXCEPT !.raised = TRUE]
                      /\ pc' = "log"
                      /\ UNCHANGED <<bucket, uploaded_by>>
                 ELSE /\ bucket' = [bucket EXCEPT !.DOT = r.content]
                      /\ uploaded_by' = Stored(uploaded_by, cur.message_id, "DOT", r,
                                               cur.dot_filename)
                      /\ att' = [att EXCEPT !.dot_up = UpText(r.ok), !.hit = r.hit,
                                            !.wrote = r.wrote]
                      /\ IF UploadsConfirmed(c)
                         THEN cur' = c /\ pc' = "label"
                         ELSE /\ cur' = Pending(c, c.company, "failed",
                                                <<"Upload failed">>, "failed")
                              /\ pc' = "log"
    /\ UNCHANGED <<fn, mailbox, labels, sheet, run, sheet_data, message_id_to_row,
                   sorted_label_id, other_label_id, all_messages, idx, counts, delay,
                   touched, logged, slept, success_at_start, last_attempt, interrupted>>

\* move_to_sorted_label; its result is not looked at
MoveToSorted ==
    /\ pc = "label"
    /\ \E ok \in BOOLEAN :
          /\ sorted_label_id \/ ok
          /\ Failures(Cost(ok))
          /\ labels' = IF sorted_label_id /\ ok
                       THEN ModifyLabels(labels, cur.message_id, {"SORTED"}, {"INBOX"})
                       ELSE labels
    /\ att' = [att EXCEPT !.modify_calls = IF sorted_label_id THEN @ + 1 ELSE @]
    /\ cur' = Pending(cur, cur.company, "success", <<>>, "processed")
    /\ pc' = "log"
    /\ UNCHANGED <<fn, mailbox, sheet, bucket, run, sheet_data, message_id_to_row,
                   sorted_label_id, other_label_id, all_messages, idx, counts, delay,
                   touched, logged, slept, success_at_start, last_attempt, interrupted, uploaded_by>>

\* log_to_sheet with the pending row, then the counter of the branch
Log ==
    /\ pc = "log"
    /\ \E ok \in BOOLEAN :
          LET r == log_to_sheet(sheet, sheet_data, message_id_to_row, cur.row, ok)
          IN  /\ Failures(Cost(ok))
              /\ sheet' = r.store
              /\ sheet_data' = r.data
              /\ message_id_to_row' = r.map
              /\ att' = [att EXCEPT !.log_status = cur.row[7][1], !.log_ok = ok]
    /\ last_attempt' = [last_attempt EXCEPT ![cur.message_id] = <<cur.row[7], cur.row[8]>>]
    /\ logged' = logged \cup {cur.message_id}
    /\ counts' = Bump(counts, cur.counter)
    /\ pc' = "sleep"
    /\ UNCHANGED <<fn, mailbox, labels, bucket, run, sorted_label_id, other_label_id,
                   all_messages, idx, cur, delay,
                   touched, slept, success_at_start, interrupted, uploaded_by>>

\* the rate limiting that ends an iteration
Sleep ==
    /\ pc = "sleep"
    /\ delay' = IF idx < Len(all_messages)
                THEN (IF idx % BATCH_SIZE = 0 THEN BATCH_DELAY ELSE DELAY_BETWEEN_EMAILS)
                ELSE delay
    /\ slept' = (slept \/ idx < Len(all_messages))
    /\ idx' = idx + 1
    /\ pc' = "loop"
    /\ UNCHANGED <<fn, env_vars, sheet_data, message_id_to_row, sorted_label_id,
                   other_label_id, all_messages, counts, cur,
                   att, touched, logged, success_at_start, last_attempt, interrupted,
                   uploaded_by>>

(***************************************************************************)
(* The execution is interrupted (killed, or an exception nothing catches). *)
(***************************************************************************)
Handling == {"move_reply", "move_other", "prepare", "upload_inv", "upload_dot",
             "label", "log"}

Crash ==
    /\ pc \notin {"idle", "done"}
    /\ Failures(1)
    /\ pc' = "idle"
    /\ interrupted' =
          IF pc \in Handling
          THEN {[id  |-> cur.message_id,
                 inv |-> Cardinality(uploaded_by[cur.message_id].INVOICE),
                 dot |-> Cardinality(uploaded_by[cur.message_id].DOT)]}
          ELSE {}
    /\ sheet_data' = <<>>
    /\ message_id_to_row' = <<>>
    /\ sorted_label_id' = FALSE
    /\ other_label_id' = FALSE
    /\ all_messages' = <<>>
    /\ idx' = 0
    /\ counts' = ZeroCounts
    /\ cur' = NoCur
    /\ delay' = 0
    /\ att' = NoAtt
    /\ touched' = {}
    /\ logged' = {}
    /\ slept' = FALSE
    /\ success_at_start' = {}
    /\ UNCHANGED <<fn, mailbox, labels, sheet, bucket, run, last_attempt, uploaded_by>>

Next ==
    \/ Construct
    \/ ListInbox
    \/ Finish
    \/ SkipProcessed
    \/ Fetch
    \/ FetchRaises
    \/ MoveReply
    \/ MoveOther
    \/ Prepare
    \/ UploadInvoice
    \/ UploadDot
    \/ MoveToSorted
    \/ Log
    \/ Sleep
    \/ Crash

Spec == Init /\ [][Next]_vars

(***************************************************************************)
(* The functions of the pipeline, each called on its own on an input of a  *)
(* bounded set: validate_email, extract_company_name, _find_fuzzy_match,   *)
(* extract_invoice_number, and the attachment partition and the filename   *)
(* synthesis of process_single_email.                                      *)
(***************************************************************************)
ClassifierSubjects ==
    { <<"Re:", " ", "Invoice", " ", "Fleet Advisor">>,
      <<"RE:", " ", "Hello">>,
      <<"re:", " ", "Invoice", " ", "Fleet Advisor">>,
      <<"rE:", " ", "Hello">>,
      <<"Invoice", " ", "Fleet Advisor">>,
      <<"Invoice">>,
      <<"Hello">> }

\* From headers: the expected address, another domain, and a domain that
\* only begins like the expected one
ClassifierSenders ==
    { <<"donotreply", "@gofleetadvisor.com">>,
      <<"x", "@example.com">>,
      <<"x", "@gofleetadvisor.com", ".evil.org">> }

Invoice2Part == [filename |-> <<"INVOICE", "-", "77", ".PDF">>, has_id |-> TRUE]

TextPart == [filename |-> <<"notes", ".txt">>, has_id |-> TRUE]

\* an invoice attachment whose name carries no number
InvoiceNoDigitsPart == [filename |-> <<"invoice", ".pdf">>, has_id |-> TRUE]

ClassifierParts == { <<InvoicePart>>, <<>>, <<DotPart>> }

ClassifierInputs ==
    { [ProcessMessage EXCEPT !.subject = s, !.sender = a,
                             !.first_in_thread = t, !.parts = p] :
         s \in ClassifierSubjects, a \in ClassifierSenders,
         t \in BOOLEAN, p \in ClassifierParts }

\* plain bodies, and HTML spans for a message without a plain body
ResolverPlains ==
    { <<"A", "c", "m", "e", ",", "\n", "x">>,
      <<"A", "c", "m", "e", " ", ",", "\n", "x">>,
      <<"A", "c", "m", "e", ",", " ", "\n", "x">>,
      <<"a", "b">>,
      <<"a", "c", "e">>,
      <<"a", "c", "s">>,
      <<"a", "c", "e", "e">>,
      <<" ", "a", "c", "e", "s", " ">>,
      <<"a", " ", "c">>,
      <<"x", "y", "z", "s">>,
      <<"z", "z", "z", "z", "z", "z", "z">> }

ResolverSpans ==
    { <<"a", "c", "m", "e", "e">>,
      <<"A", "B", "&nbsp;">>,
      <<"a", "c", "m", ",">>,
      <<>> }

ResolverInputs ==
    { [ProcessMessage EXCEPT !.plain = b, !.html = <<>>] : b \in ResolverPlains }
    \cup { [ProcessMessage EXCEPT !.plain = <<>>, !.html = h] : h \in ResolverSpans }

\* candidate keys handed to _find_fuzzy_match
FuzzyInputs ==
    { SpacesToHyphens(Lower(CandidateName(m))) : m \in ResolverInputs } \ { <<>> }

\* the parts of a message, in visiting order
PartitionInputs ==
    { <<InvoicePart, DotPart>>,
      <<DotPart, InvoicePart>>,
      <<InvoicePart, Invoice2Part>>,
      <<Invoice2Part, DotPart, InvoicePart>>,
      <<InvoicePart, TextPart, DotPart, DotPart>>,
      <<InvoicePart, InvoiceNoDigitsPart>>,
      <<DotPart, InvoiceNoDigitsPart>>,
      <<DotPart>>,
      <<TextPart>>,
      <<InvoicePart>> }

\* messages routed to Process whose names are synthesized: with and without
\* a supporting document, with and without a Date header, with and without
\* a number in the invoice's name
SynthesisMessages ==
    { ProcessDotMessage,
      ProcessMessage,
      [ProcessDotMessage EXCEPT !.parts = <<DotPart, InvoiceNoDigitsPart>>,
                                !.plain = <<"a", "b">>] }

SynthesisInputs ==
    { [message |-> m, meta_ok |-> k, now |-> d] :
         m \in SynthesisMessages, k \in BOOLEAN, d \in Days }

FnInputs ==
    { [op |-> "validate_email", arg |-> m, result |-> <<>>, done |-> FALSE] :
         m \in ClassifierInputs }
    \cup { [op |-> "extract_company_name", arg |-> m, result |-> <<>>, done |-> FALSE] :
               m \in ResolverInputs }
    \cup { [op |-> "find_fuzzy_match", arg |-> k, result |-> <<>>, done |-> FALSE] :
               k \in FuzzyInputs }
    \cup { [op |-> "partition", arg |-> [ProcessMessage EXCEPT !.parts = p],
            result |-> <<>>, done |-> FALSE] : p \in PartitionInputs }
    \cup { [op |-> "synthesize", arg |-> a, result |-> <<>>, done |-> FALSE] :
               a \in SynthesisInputs }
    \cup { [op |-> "extract_invoice_number", arg |-> [ProcessMessage EXCEPT !.parts = p],
            result |-> <<>>, done |-> FALSE] : p \in PartitionInputs }

FnInit == PipelineInit /\ fn \in FnInputs

Returned(value) == [fn EXCEPT !.result = value, !.done = TRUE]

CallValidateEmail ==
    /\ fn.op = "validate_email" /\ ~fn.done
    /\ fn' = Returned(validate_email(fn.arg))
    /\ UNCHANGED <<env_vars, proc_vars, hist_vars>>

\* the candidate name before normalization, and the resolved company
CallExtractCompanyName ==
    /\ fn.op = "extract_company_name" /\ ~fn.done
    /\ fn' = Returned([company_name |-> CandidateName(fn.arg),
                       company      |-> extract_company_name(fn.arg)])
    /\ UNCHANGED <<env_vars, proc_vars, hist_vars>>

CallFindFuzzyMatch ==
    /\ fn.op = "find_fuzzy_match" /\ ~fn.done
    /\ fn' = Returned(find_fuzzy_match(fn.arg, 2))
    /\ UNCHANGED <<env_vars, proc_vars, hist_vars>>

\* get_attachments, then the partition loop of process_single_email
CallPartition ==
    /\ fn.op = "partition" /\ ~fn.done
    /\ LET attachments == get_attachments(fn.arg)
       IN  fn' = Returned([attachments        |-> attachments,
                           invoice_attachment |-> InvoiceAttachment(attachments),
                           dot_attachments    |-> DotAttachments(attachments)])
    /\ UNCHANGED <<env_vars, proc_vars, hist_vars>>

\* get_attachments, extract_invoice_number, then the partition loop
CallExtractInvoiceNumber ==
    /\ fn.op = "extract_invoice_number" /\ ~fn.done
    /\ LET attachments == get_attachments(fn.arg)
       IN  fn' = Returned([invoice_number     |-> extract_invoice_number(attachments),
                           invoice_attachment |-> InvoiceAttachment(attachments)])
    /\ UNCHANGED <<env_vars, proc_vars, hist_vars>>

\* process_single_email from the resolution to the synthesis of the names:
\* the pieces and the names built from them
CallSynthesize ==
    /\ fn.op = "synthesize" /\ ~fn.done
    /\ LET message     == fn.arg.message
           company     == extract_company_name(message)
           attachments == get_attachments(message)
           c           == Synthesized(NoCur, message, company, attachments,
                                      fn.arg.meta_ok, fn.arg.now)
       IN  fn' = Returned([company          |-> company,
                           invoice_number   |-> extract_invoice_number(attachments),
                           meta             |-> extract_metadata_from_pdf(message,
                                                                          fn.arg.meta_ok),
                           email_date       |-> get_email_date(message, fn.arg.now),
                           has_dot          |-> c.has_dot,
                           invoice_filename |-> c.invoice_filename,
                           dot_filename     |-> c.dot_filename])
    /\ UNCHANGED <<env_vars, proc_vars, hist_vars>>

FnNext ==
    \/ CallValidateEmail
    \/ CallExtractCompanyName
    \/ CallFindFuzzyMatch
    \/ CallPartition
    \/ CallExtractInvoiceNumber
    \/ CallSynthesize

FnSpec == FnInit /\ [][FnNext]_vars

(***************************************************************************)
(* Properties.                                                             *)
(***************************************************************************)
\* the positions of the persisted rows that carry message_id
RowsOf(rows, message_id) ==
    {i \in 2..Len(rows) : Len(rows[i]) >= 2 /\ rows[i][2] = <<message_id>>}

\* C1 (idempotency gate): a run makes no collaborator call (fetch, label
\* modification, upload, ledger write; the fetch comes first) for a message
\* whose persisted ledger record had status 'success' when the run started.
C1_IdempotencyGate == touched \cap success_at_start = {}

\* C2: for a message routed to Process, a label modification call or a
\* 'success' record implies that every upload of the message reported
\* success; once an upload reported failure the handling ends with a
\* log_to_sheet call of status 'failed' (persisted when the store accepts
\* it), no label modification call, and the message where it was.
C2_LabelOnlyAfterUploads ==
    att.action = "process" =>
       /\ att.modify_calls > 0 =>
             att.invoice_up = "ok" /\ (cur.has_dot => att.dot_up = "ok")
       /\ att.log_status = "success" =>
             att.invoice_up = "ok" /\ (cur.has_dot => att.dot_up = "ok")
       /\ (att.invoice_up = "fail" \/ att.dot_up = "fail") =>
             /\ att.modify_calls = 0
             /\ att.inbox => "INBOX" \in labels[att.message_id]
             /\ pc \in {"upload_dot", "log", "sleep", "loop", "done"}
             /\ pc = "log" => cur.row[7] = <<"failed">>
             /\ pc \in {"sleep", "loop", "done"} =>
                   /\ att.log_status = "failed"
                   /\ att.log_ok =>
                         \E i \in RowsOf(sheet, att.message_id) :
                            sheet[i][7] = <<"failed">>

\* C2 witness: the invoice was stored, the bundle's upload failed, and the
\* 'failed' record is in the ledger
C2_Witness ==
    /\ att.action = "process"
    /\ att.invoice_up = "ok"
    /\ att.dot_up = "fail"
    /\ pc = "sleep"
    /\ att.log_ok
    /\ "INBOX" \in labels[att.message_id]

\* C3 (partial-failure isolation): when handling a message raised, at the
\* end of its handling a 'failed' record was logged for it and failed_count
\* was incremented.
C3_RaisedIsLoggedFailed ==
    (att.raised /\ pc \in {"loop", "sleep"}) =>
       (att.log_status = "failed" /\ counts.failed >= 1)

\* C4 (crash recoverability): a message whose handling the previous run left
\* before its ledger write is listed again and not skipped, and handling it
\* again stores no object beyond those its interrupted handling stored.
C4_CrashRecoverable ==
    \A rec \in interrupted :
       /\ pc = "loop" =>
             /\ \E i \in DOMAIN all_messages : all_messages[i] = rec.id
             /\ ~is_already_processed(sheet_data, message_id_to_row, rec.id)
       /\ rec.inv >= 1 => Cardinality(uploaded_by[rec.id].INVOICE) = rec.inv
       /\ rec.dot >= 1 => Cardinality(uploaded_by[rec.id].DOT) = rec.dot

\* C5: _is_already_processed(message_id) is true exactly when the loaded
\* ledger (as read at construction and kept by log_to_sheet) holds a row of
\* at least 7 columns for message_id whose status is 'success'.
C5_ProcessedIffSuccessRecord ==
    sheet_data # <<>> =>
       \A m \in MsgIds :
          is_already_processed(sheet_data, message_id_to_row, m)
          <=> \E i \in 2..Len(sheet_data) :
                 /\ Len(sheet_data[i]) >= 7
                 /\ sheet_data[i][2] = <<m>>
                 /\ sheet_data[i][7] = <<"success">>

\* C6 (ledger key uniqueness): the persisted ledger has at most one row per
\* message identifier.
C6_LedgerKeyUniqueness ==
    \A m \in MsgIds : Cardinality(RowsOf(sheet, m)) <= 1

\* C7 (most recent attempt wins): for every identifier log_to_sheet was
\* called for, the persisted ledger has a record for it, with the status and
\* the error of the last call.
C7_MostRecentAttemptWins ==
    \A m \in MsgIds :
       last_attempt[m] # <<>> =>
          /\ RowsOf(sheet, m) # {}
          /\ \A i \in RowsOf(sheet, m) :
                /\ sheet[i][7] = last_attempt[m][1]
                /\ sheet[i][8] = last_attempt[m][2]

\* C8 (index synchronization): for every identifier of message_id_to_row,
\* the cached row at its position carries the identifier, and the position
\* is that of the row carrying the identifier in the persisted ledger.
C8_IndexSynchronized ==
    \A k \in DOMAIN message_id_to_row :
       LET r == message_id_to_row[k]
       IN  /\ r <= Len(sheet_data)
           /\ Len(sheet_data[r]) >= 2
           /\ sheet_data[r][2] = k
           /\ RowsOf(sheet, k[1]) = {r}

\* C9 (upload dedup): an upload_to_supabase call whose listing reported an
\* existing file returns success, issues no upload call and leaves the
\* bucket as it was.
C9_UploadDedup ==
    [][ /\ (att.invoice_up = "none" /\ att'.invoice_up # "none" /\ att'.hit) =>
              /\ cur'.invoice_uploaded
              /\ ~att'.wrote
              /\ bucket' = bucket
        /\ (att.dot_up = "none" /\ att'.dot_up # "none" /\ att'.hit) =>
              /\ cur'.dot_uploaded
              /\ ~att'.wrote
              /\ bucket' = bucket ]_vars

\* C9 witness: a second run uploads the bundle of a message again and the
\* listing reports the file the first run stored
C9_Witness ==
    /\ att.dot_up = "ok"
    /\ att.hit
    /\ ~att.wrote
    /\ Strip(cur.dot_filename) \in bucket.DOT

\* C10: when upload_to_supabase returned success, an object named exactly
\* the stripped filename is in the bucket.
C10_SuccessMeansExactName ==
    /\ cur.invoice_uploaded => Strip(cur.invoice_filename) \in bucket.INVOICE
    /\ cur.dot_uploaded => Strip(cur.dot_filename) \in bucket.DOT

\* a subject that begins with "Re:" in some letter case
IsReplySubject(subject) == subject # <<>> /\ subject[1] \in {"Re:", "RE:", "re:", "rE:"}

\* the domain of the sender address is the expected originating domain
SenderDomainMatches(sender) == sender # <<>> /\ sender[Len(sender)] = "@gofleetadvisor.com"

HasInvoiceToken(subject) ==
    ContainsTok(subject, "Invoice") /\ ContainsTok(subject, "Fleet Advisor")

HasInvoiceAttachment(message) ==
    \E i \in DOMAIN message.parts :
       LET filename == Lower(message.parts[i].filename)
       IN  filename # <<>> /\ filename[1] = "invoice" /\ filename[Len(filename)] = ".pdf"

\* C11: validate_email decides by the first predicate that is true, in the
\* order reply subject, subject tokens, thread position, sender domain,
\* invoice attachment, otherwise Process; a reply subject gives
\* RedirectReply and a non-reply subject without the tokens RedirectOther
\* whatever the thread position, the sender and the attachments are.  (The
\* letter cases of "Re:" the reply predicate covers and the senders the
\* domain predicate covers are C12 and C13: the order is stated on the
\* subjects "Re:", "RE:" or no reply prefix and on senders whose address
\* either ends with the domain or does not contain it.)
C11_ClassifierOrder ==
    (fn.op = "validate_email" /\ fn.done) =>
       LET m       == fn.arg
           reply   == StartsWith(m.subject, "Re:") \/ StartsWith(m.subject, "RE:")
           plain   == ~IsReplySubject(m.subject)
           tokens  == HasInvoiceToken(m.subject)
           first   == m.first_in_thread
           domain  == SenderDomainMatches(m.sender)
           foreign == ~ContainsTok(m.sender, "@gofleetadvisor.com")
           invoice == HasInvoiceAttachment(m)
       IN  /\ reply => fn.result.action = "move_to_original"
           /\ (plain /\ ~tokens) => fn.result.action = "move_to_other"
           /\ (plain /\ tokens /\ ~first) =>
                 fn.result = Validation("skip", "Not first message in thread")
           /\ (plain /\ tokens /\ first /\ foreign) =>
                 fn.result = Validation("skip", "Sender not @gofleetadvisor.com")
           /\ (plain /\ tokens /\ first /\ domain /\ ~invoice) =>
                 fn.result = Validation("skip", "No invoice PDF attachment found")
           /\ (plain /\ tokens /\ first /\ domain /\ invoice) =>
                 fn.result.action = "process"

\* C11 witness: a reply that is not the first of its thread, from another
\* domain and without an invoice attachment, routed to RedirectReply
C11_Witness ==
    /\ fn.op = "validate_email" /\ fn.done
    /\ StartsWith(fn.arg.subject, "Re:")
    /\ ~fn.arg.first_in_thread
    /\ ~ContainsTok(fn.arg.sender, "@gofleetadvisor.com")
    /\ ~HasInvoiceAttachment(fn.arg)
    /\ fn.result.action = "move_to_original"

\* C12: a subject that begins with "Re:" in any letter case is classified
\* RedirectReply.
C12_ReplyAnyCase ==
    (fn.op = "validate_email" /\ fn.done /\ IsReplySubject(fn.arg.subject)) =>
       fn.result.action = "move_to_original"

\* C13: a message is classified Process only if the domain of its sender
\* address is the expected one; past the subject and thread checks, any
\* other sender gives Skip.
C13_SenderDomain ==
    (fn.op = "validate_email" /\ fn.done) =>
       /\ fn.result.action = "process" => SenderDomainMatches(fn.arg.sender)
       /\ (/\ ~IsReplySubject(fn.arg.subject)
           /\ HasInvoiceToken(fn.arg.subject)
           /\ fn.arg.first_in_thread
           /\ ~SenderDomainMatches(fn.arg.sender)) => fn.result.action = "skip"

\* C14 (Skip frame): while a message classified Skip is handled, no label
\* modification call, no upload and no log_to_sheet call is made, and the
\* mailbox labels, the ledger and the buckets stay as they are.
C14_SkipFrame ==
    [][ att'.action = "skip" =>
           /\ att'.modify_calls = 0
           /\ att'.invoice_up = "none" /\ att'.dot_up = "none"
           /\ att'.log_status = "none"
           /\ labels' = labels
           /\ sheet' = sheet
           /\ bucket' = bucket ]_vars

\* C14 witness: the handling of a Skip message is over and counted
C14_Witness ==
    /\ att.action = "skip"
    /\ pc = "loop"
    /\ counts.skipped = 1
    /\ "INBOX" \in labels[att.message_id]

\* the error text of a RedirectReply or RedirectOther record
RedirectReason(error) ==
    /\ error # <<>>
    /\ error[1] \in {"Reply email - ", "Not an invoice email - wrong subject format"}

\* C15 (redirect is terminal): once a RedirectReply or RedirectOther message
\* is handled it is out of the inbox, a 'failed' record with a reason was
\* logged for it, and no later run handles it again (stated for the first
\* message of a listing, whose earlier attempts all belong to earlier runs).
C15_RedirectTerminal ==
    /\ (att.action \in {"move_to_original", "move_to_other"} /\ pc = "sleep") =>
          /\ "INBOX" \notin labels[att.message_id]
          /\ att.log_status = "failed"
          /\ cur.row[8] # <<>>
    /\ (att.fetched /\ idx = 1 /\ att.log_status = "none"
            /\ last_attempt[att.message_id] # <<>>) =>
          ~RedirectReason(last_attempt[att.message_id][2])

\* the unit-cost edit distance (insertion, deletion, substitution) by its
\* recursive definition
RECURSIVE EditDistance(_, _)
EditDistance(a, b) ==
    IF a = <<>> THEN Len(b)
    ELSE IF b = <<>> THEN Len(a)
    ELSE Min3(EditDistance(Tail(a), b) + 1,
              EditDistance(a, Tail(b)) + 1,
              EditDistance(Tail(a), Tail(b)) + (IF Head(a) = Head(b) THEN 0 ELSE 1))

InReferenceSet(key) == \E i \in DOMAIN ValidCompanies : ValidCompanies[i] = key

\* the candidate key of a candidate name: lower case, spaces to hyphens
CandidateKey(company_name) == SpacesToHyphens(Lower(company_name))

\* C16: the resolver tries the tiers in order and stops at the first
\* success: the candidate key if it is a reference key; else the key with a
\* trailing hyphen if that is a reference key, whatever other keys are
\* near; else what the fuzzy tier decides; and a result other than 'no
\* match' is a reference key.
C16_ResolverTiers ==
    (fn.op = "extract_company_name" /\ fn.done) =>
       LET key     == CandidateKey(fn.result.company_name)
           dash    == key \o <<"-">>
           company == fn.result.company
       IN  /\ fn.result.company_name = <<>> => company = <<>>
           /\ fn.result.company_name # <<>> =>
                 /\ InReferenceSet(key) => company = key
                 /\ (~InReferenceSet(key) /\ InReferenceSet(dash)) => company = dash
                 /\ (~InReferenceSet(key) /\ ~InReferenceSet(dash)) =>
                       company = find_fuzzy_match(key, 2)
           /\ company # <<>> => InReferenceSet(company)

\* C16 witness: the key with a trailing hyphen is the result although another
\* reference key, earlier in the set, is as near
C16_Witness ==
    /\ fn.op = "extract_company_name" /\ fn.done
    /\ fn.result.company_name # <<>>
    /\ fn.result.company = CandidateKey(fn.result.company_name) \o <<"-">>
    /\ EditDistance(CandidateKey(fn.result.company_name), ValidCompanies[1]) = 1

\* the distances from a key to the reference keys, in their order
ReferenceDistances(key) ==
    [i \in DOMAIN ValidCompanies |-> EditDistance(key, ValidCompanies[i])]

\* C17 (fuzzy tier): _find_fuzzy_match returns the reference key at the
\* least edit distance from the candidate key, the first such key in
\* iteration order, when that distance is at most 2, and no match when
\* every reference key is at distance 3 or more.
C17_FuzzyNearest ==
    (fn.op = "find_fuzzy_match" /\ fn.done) =>
       LET d     == ReferenceDistances(fn.arg)
           least == CHOOSE x \in {d[i] : i \in DOMAIN d} : \A i \in DOMAIN d : x <= d[i]
           first == CHOOSE i \in DOMAIN d : d[i] = least /\ \A j \in 1..(i - 1) : d[j] # least
       IN  IF least <= 2 THEN fn.result = ValidCompanies[first] ELSE fn.result = <<>>

\* C17 witness: the nearest key is returned although an earlier key is
\* within the threshold too
C17_Witness ==
    /\ fn.op = "find_fuzzy_match" /\ fn.done
    /\ fn.result = ValidCompanies[3]
    /\ ReferenceDistances(fn.arg)[1] = 2
    /\ ReferenceDistances(fn.arg)[3] = 1

\* C18 (candidate extraction): when the first line of the plain body ends
\* with a comma, the candidate name is that line without the comma and the
\* whitespace after it; whitespace before the comma is kept.
C18_TrailingCommaOnly ==
    (/\ fn.op = "extract_company_name" /\ fn.done
     /\ EndsWith(RStrip(FirstLine(fn.arg.plain)), ",")) =>
       LET line == RStrip(FirstLine(fn.arg.plain))
       IN  fn.result.company_name = LStrip(SubSeq(line, 1, Len(line) - 1))

\* no tier of the resolver matches the candidate of the message
NoMatch(message) ==
    LET key == CandidateKey(CandidateName(message))
    IN  \/ CandidateName(message) = <<>>
        \/ /\ ~InReferenceSet(key)
           /\ ~InReferenceSet(key \o <<"-">>)
           /\ \A i \in DOMAIN ValidCompanies : EditDistance(key, ValidCompanies[i]) >= 3

NoMatchOfSample == [i \in DOMAIN SampleMessages |-> NoMatch(SampleMessages[i])]

\* C19 (no guessing): for a message routed to Process whose company has no
\* match, no upload and no label modification call is made, the handling
\* ends with a log_to_sheet call of status 'failed' (persisted when the
\* store accepts it), and the message stays where it was.
C19_NoGuessing ==
    (att.action = "process" /\ NoMatchOfSample[SampleIndex(mailbox, att.message_id)]) =>
       /\ att.invoice_up = "none" /\ att.dot_up = "none"
       /\ ~att.wrote
       /\ att.modify_calls = 0
       /\ att.inbox => "INBOX" \in labels[att.message_id]
       /\ pc \in {"prepare", "log", "sleep", "loop", "done"}
       /\ pc = "log" => cur.row[7] = <<"failed">>
       /\ pc \in {"sleep", "loop", "done"} =>
             /\ att.log_status = "failed"
             /\ att.log_ok =>
                   \E i \in RowsOf(sheet, att.message_id) : sheet[i][7] = <<"failed">>

\* C19 witness: the 'failed' record of a message without a company match is
\* in the ledger and the message is in the inbox
C19_Witness ==
    /\ att.action = "process"
    /\ NoMatchOfSample[SampleIndex(mailbox, att.message_id)]
    /\ pc = "sleep"
    /\ att.log_ok
    /\ "INBOX" \in labels[att.message_id]
    /\ bucket.DOT = {}

\* C20 (attachment partition): every PDF attachment is the invoice
\* attachment or one of the supporting attachments, none is left out,
\* however many attachments start with the invoice marker.
C20_PartitionComplete ==
    (fn.op = "partition" /\ fn.done) =>
       /\ Len(fn.result.invoice_attachment) <= 1
       /\ Len(fn.result.attachments)
             = Len(fn.result.invoice_attachment) + Len(fn.result.dot_attachments)

\* the digit run after the invoice marker and optional separators in a
\* filename, 'NA' when the filename has none
NumberInName(filename) ==
    LET name  == Lower(filename)
        runs  == {k \in DOMAIN name :
                    /\ IsDigits(name[k])
                    /\ \E j \in 1..(k - 1) :
                          /\ name[j] = "invoice"
                          /\ \A i \in (j + 1)..(k - 1) : IsSeparator(name[i])}
    IN  IF runs = {} THEN <<"NA">>
        ELSE <<name[CHOOSE k \in runs : \A l \in runs : k <= l]>>

\* C21: the invoice number is the digit run after the invoice marker in the
\* filename of the attachment selected as the invoice attachment, 'NA' when
\* that filename has none.
C21_NumberOfSelectedInvoice ==
    (/\ fn.op = "extract_invoice_number" /\ fn.done
     /\ fn.result.invoice_attachment # <<>>) =>
       fn.result.invoice_number = NumberInName(fn.result.invoice_attachment[1].filename)

\* the text of `name` between the literals a and b
Between(name, a, b) ==
    LET i == CHOOSE k \in DOMAIN name : name[k] = a
        j == CHOOSE k \in DOMAIN name : name[k] = b
    IN  SubSeq(name, i + 1, j - 1)

\* C22 (extraction degradation): when text extraction or the field
\* extraction service fails, unit, vin and plate are 'NA' (the unit is not
\* taken from the VIN), nothing is raised, the next step is the invoice
\* upload, and a 'failed' record of that message has another cause (an
\* upload that failed or an exception of a later step).
C22_ExtractionDegrades ==
    [][ /\ (att.extraction = "none" /\ att'.extraction = "fail") =>
              /\ pc' = "upload_inv"
              /\ ~att'.raised
              /\ att'.log_status = "none"
              /\ Between(cur'.invoice_filename, "__U-", "__V-") = <<"NA">>
              /\ Between(cur'.invoice_filename, "__V-", "__D-") = <<"NA">>
              /\ Between(cur'.invoice_filename, "__P-", ".pdf") = <<"NA">>
        /\ (att'.extraction = "fail" /\ att'.log_status = "failed") =>
              (att'.invoice_up = "fail" \/ att'.dot_up = "fail" \/ att'.raised) ]_vars

\* C22 witness: the extraction failed, the invoice was stored under the name
\* with the 'NA' fields and the 'success' record was logged
C22_Witness ==
    /\ att.extraction = "fail"
    /\ att.invoice_up = "ok"
    /\ att.log_status = "success"
    /\ Strip(cur.invoice_filename) \in bucket.INVOICE
    /\ Between(cur.invoice_filename, "__V-", "__D-") = <<"NA">>

\* C23 (filename synthesis): the invoice name is company, '__I-', invoice
\* number, '__U-', unit, '__V-', vin, '__D-', date, '__P-', plate, '.pdf' in
\* this order and nothing else; the bundle's name is the same with '__dot'
\* right after the company; 'NA' values appear as they are.
C23_FilenameSynthesis ==
    (fn.op = "synthesize" /\ fn.done) =>
       LET r    == fn.result
           tail == <<"__I-">> \o r.invoice_number \o <<"__U-">> \o r.meta.unit
                   \o <<"__V-">> \o r.meta.vin \o <<"__D-">> \o r.email_date
                   \o <<"__P-">> \o r.meta.plate \o <<".pdf">>
       IN  /\ r.invoice_filename = r.company \o tail
           /\ r.has_dot => r.dot_filename = r.company \o <<"__dot">> \o tail

\* C23 witness: the names of a message with a supporting document, no number
\* in the invoice's name and a failed field extraction
C23_Witness ==
    /\ fn.op = "synthesize" /\ fn.done
    /\ fn.result.has_dot
    /\ fn.result.invoice_number = <<"NA">>
    /\ fn.result.meta.vin = <<"NA">>
    /\ fn.result.dot_filename =
          <<"a", "b", "-", "__dot", "__I-", "NA", "__U-", "NA", "__V-", "NA", "__D-",
            "01152024", "__P-", "NA", ".pdf">>

\* the message has a downloadable PDF part whose name does not start with
\* the invoice marker
HasSupporting(message) ==
    \E i \in DOMAIN message.parts :
       LET name == Lower(message.parts[i].filename)
       IN  /\ message.parts[i].has_id
           /\ name # <<>>
           /\ name[Len(name)] = ".pdf"
           /\ name[1] # "invoice"

HasSupportingOfSample ==
    [i \in DOMAIN SampleMessages |-> HasSupporting(SampleMessages[i])]

\* C24: for a message routed to Process, an upload to the DOT bucket is
\* attempted only if the message has a supporting attachment, and it is
\* attempted once the invoice upload was and the handling went on without an
\* exception; without a supporting attachment there is no supporting
\* filename, no DOT upload, and the record's supporting-document field is
\* 'N/A'.  (Supporting attachments are the PDF attachments whose name does
\* not start with the invoice marker; what the partition leaves out is C20.)
C24_DotUploadIffSupporting ==
    att.action = "process" =>
       LET supporting == HasSupportingOfSample[SampleIndex(mailbox, att.message_id)]
       IN  /\ att.dot_up # "none" => supporting
           /\ (supporting /\ att.invoice_up # "none" /\ pc # "upload_dot" /\ ~att.raised)
                 => att.dot_up # "none"
           /\ (~supporting /\ att.invoice_up # "none") =>
                 /\ cur.dot_filename = <<>>
                 /\ att.dot_up = "none"
                 /\ uploaded_by[att.message_id].DOT = {}
                 /\ pc = "log" => cur.row[6] = <<"N/A">>
                 /\ (pc \in {"sleep", "loop", "done"} /\ att.log_ok) =>
                       \E i \in RowsOf(sheet, att.message_id) : sheet[i][6] = <<"N/A">>

\* C24 witness: a message with the invoice alone is stored and recorded
\* with 'N/A' as its supporting document
C24_Witness ==
    /\ att.action = "process"
    /\ ~HasSupportingOfSample[SampleIndex(mailbox, att.message_id)]
    /\ att.invoice_up = "ok"
    /\ att.dot_up = "none"
    /\ pc = "sleep"
    /\ att.log_ok
    /\ \E i \in RowsOf(sheet, att.message_id) :
          sheet[i][6] = <<"N/A">> /\ sheet[i][7] = <<"success">>

\* C25 (write-last ordering): in a run, the log_to_sheet call for a message
\* comes after the uploads and label modifications of the message (the
\* handling is at its last step), and no upload or label modification call
\* for a message is made once log_to_sheet was called for it in that run.
C25_WriteLast ==
    [][ /\ (att.log_status = "none" /\ att'.log_status # "none") =>
              pc = "log" /\ pc' = "sleep"
        /\ (\/ att'.modify_calls > att.modify_calls
            \/ att.invoice_up = "none" /\ att'.invoice_up # "none"
            \/ att.dot_up = "none" /\ att'.dot_up # "none")
              => cur.message_id \notin logged ]_vars

\* C26: within one run a message identifier is handled (its fetch is
\* attempted) at most once, also when the listing returns it twice.
C26_HandledOncePerRun ==
    [][ (pc = "loop" /\ pc' # "done" /\ att'.message_id # "")
           => att'.message_id \notin touched ]_vars

\* C27 (rate limiting): in a run, when a message is fetched after an
\* earlier message was, a delay was taken in between, also when the handling
\* of the earlier message raised or messages in between were skipped as
\* already processed; and the delay taken after a message whose position is
\* a multiple of BATCH_SIZE is the batch pause, any other the per-message
\* delay.
C27_DelayBetweenMessages ==
    [][ /\ (pc = "loop" /\ pc' # "done" /\ att'.message_id # "" /\ touched # {})
              => slept
        /\ (pc = "sleep" /\ pc' = "loop" /\ idx < Len(all_messages)) =>
              delay' = IF idx % BATCH_SIZE = 0 THEN BATCH_DELAY
                       ELSE DELAY_BETWEEN_EMAILS ]_vars

\* C28 (success implies sorted): a message for which a 'success' record was
\* logged, or whose persisted record has status 'success', is out of the
\* inbox and carries the sorted label.
C28_SuccessImpliesSorted ==
    /\ (att.log_status = "success") =>
          ("INBOX" \notin labels[att.message_id] /\ "SORTED" \in labels[att.message_id])
    /\ \A m \in MsgIds :
          (\E i \in RowsOf(sheet, m) : sheet[i][7] = <<"success">>) =>
             ("INBOX" \notin labels[m] /\ "SORTED" \in labels[m])

\* the status of the record of message_id: that of the last persisted row
\* carrying it, "" when there is none
RecordStatus(rows, message_id) ==
    IF RowsOf(rows, message_id) = {} THEN <<"">>
    ELSE rows[MaxOf(RowsOf(rows, message_id))][7]

\* C29 (success is stable): once the persisted record of a message has
\* status 'success', no step of the same or a later run changes the status
\* of that record.
C29_SuccessStable ==
    [][ \A m \in MsgIds :
           RecordStatus(sheet, m) = <<"success">> =>
              RecordStatus(sheet', m) = <<"success">> ]_vars

\* processed_count + cleaned_count + skipped_count + failed_count
CounterSum == counts.processed + counts.cleaned + counts.skipped + counts.failed

\* C30 (counter conservation): when process_inbox finishes the four
\* counters add up to the number of listed messages; while it runs they add
\* up to the number of messages whose handling is over, so every handling
\* adds one to one counter, on the exception paths too.
C30_CounterConservation ==
    /\ pc = "done" => CounterSum = Len(all_messages)
    /\ pc = "loop" => CounterSum = idx - 1
    /\ pc \in Handling => CounterSum = idx - 1
    /\ pc = "sleep" => CounterSum = idx

\* C30 witness: a finished run whose first message raised at its fetch and
\* whose second was skipped by the classifier
C30_Witness ==
    /\ pc = "done"
    /\ Len(all_messages) = 2
    /\ counts.failed = 1
    /\ counts.skipped = 1

\* C31 (retry stores at most one invoice object per message): the uploads
\* of one message, over all its attempts in all runs, store at most one
\* object in the INVOICE bucket, the name synthesized at a retry being that
\* of the earlier attempt.
C31_OneInvoiceObjectPerMessage ==
    \A m \in MsgIds : Cardinality(uploaded_by[m].INVOICE) <= 1

====
